---------------------------- MODULE Spec2Model ----------------------------
(***************************************************************************)
(* Model of eq_dkp_spell_tracker.py: the date index                        *)
(* (extract_dates_from_log), the parsing pass (parse_log) and the          *)
(* interactive selection of main.                                          *)
(*                                                                         *)
(* A log line is a record                                                  *)
(*   pre   : the bracket prefix as tokens, <<>> when the line has none,    *)
(*           else <<lead, wd, mon, day, hh, mm, ss, yr>> where lead is the *)
(*           first character, wd and mon are words and the numeric fields  *)
(*           are digit sequences;                                          *)
(*   exp   : the line contains "You gain party experience";                *)
(*   cast  : the cast phrase the line contains, "" when none;              *)
(*   skill : <<>> or <<name, digits>>, the first match of                  *)
(*           "You have become better at (.+?)! \((\d+)\)".                 *)
(* A Python None is <<>> and a set optional value v is <<v>>.              *)
(***************************************************************************)
EXTENDS Integers, Sequences, FiniteSets, TLC

VARIABLES
    pc,                 \* control point of the run
    file,               \* contents of the selected log file (readlines())
    file_exists,        \* whether open(file_name) succeeds in parse_log
    lines,              \* parse_log: lines
    idx,                \* parse_log: position of the for loop in lines
    selected_date,      \* parse_log argument
    total_active_time,
    total_afk_time,
    first_cast_time,
    last_cast_time,
    skillups,
    experience_count,
    total_log_entries,
    last_timestamp,
    result,             \* value returned by parse_log, <<>> before it returns
    logs,               \* main: list returned by detect_eq_logs
    log_input,          \* main: text typed at the log prompt
    date_input,         \* main: text typed at the date prompt
    selected_log,       \* main: <<>> or <<log>>
    available_dates,    \* main: extract_dates_from_log(selected_log)
    displayed           \* arguments display_report was called with, <<>> before

vars == <<pc, file, file_exists, lines, idx, selected_date, total_active_time,
          total_afk_time, first_cast_time, last_cast_time, skillups,
          experience_count, total_log_entries, last_timestamp, result, logs,
          log_input, date_input, selected_log, available_dates, displayed>>

parseVars == <<lines, idx, total_active_time, total_afk_time, first_cast_time,
               last_cast_time, skillups, experience_count, total_log_entries,
               last_timestamp, result>>

mainVars == <<logs, log_input, date_input, selected_log, available_dates,
              displayed>>

None == <<>>

-----------------------------------------------------------------------------
(* Bounds of the model *)

MaxLines == 3        \* longest log file given to parse_log
MaxMainLines == 2    \* longest log file of a run of main
MaxLogs == 2         \* most log files detect_eq_logs returns

-----------------------------------------------------------------------------
(* Tokens, the prefix pattern and strptime *)

RECURSIVE DigitsValue(_)
DigitsValue(ds) ==
    IF ds = <<>> THEN 0
    ELSE 10 * DigitsValue(SubSeq(ds, 1, Len(ds) - 1)) + ds[Len(ds)]

MonthNames == <<"Jan", "Feb", "Mar", "Apr", "May", "Jun",
                "Jul", "Aug", "Sep", "Oct", "Nov", "Dec">>

WeekdayNames == {"Mon", "Tue", "Wed", "Thu", "Fri", "Sat", "Sun"}

IsMonthName(tok) == \E k \in 1..Len(MonthNames) : MonthNames[k] = tok

MonthNumber(tok) == CHOOSE k \in 1..Len(MonthNames) : MonthNames[k] = tok

IsLeap(y) == (y % 4 = 0) /\ ((y % 100 # 0) \/ (y % 400 = 0))

DaysInMonth(y, m) ==
    IF m = 2 THEN (IF IsLeap(y) THEN 29 ELSE 28)
    ELSE IF m \in {4, 6, 9, 11} THEN 30 ELSE 31

RECURSIVE DaysBeforeMonth(_, _)
DaysBeforeMonth(y, m) ==
    IF m = 1 THEN 0 ELSE DaysBeforeMonth(y, m - 1) + DaysInMonth(y, m - 1)

\* date.toordinal(): days since 0001-01-01, plus one
ToOrdinal(d) ==
    LET y == d.year - 1
    IN  y * 365 + (y \div 4) - (y \div 100) + (y \div 400)
        + DaysBeforeMonth(d.year, d.month) + d.day

\* the tokens of a prefix
Lead(pre) == pre[1]
Wd(pre) == pre[2]
Mon(pre) == pre[3]
Day(pre) == pre[4]
Hh(pre) == pre[5]
Mm(pre) == pre[6]
Ss(pre) == pre[7]
Yr(pre) == pre[8]

\* re.match(r"\[([A-Za-z]{3}) (\w{3}) (\d{2}) (\d{2}):(\d{2}):(\d{2}) (\d{4})\]", line)
ReMatch(line) ==
    /\ line.pre # <<>>
    /\ Lead(line.pre) = "["
    /\ Len(Wd(line.pre)) = 3
    /\ Len(Mon(line.pre)) = 3
    /\ Len(Day(line.pre)) = 2
    /\ Len(Hh(line.pre)) = 2
    /\ Len(Mm(line.pre)) = 2
    /\ Len(Ss(line.pre)) = 2
    /\ Len(Yr(line.pre)) = 4

\* does strptime(..., '%b %d %Y') accept the month, day and year tokens,
\* and does date() accept the values
DateParses(pre) ==
    /\ IsMonthName(Mon(pre))
    /\ Len(Day(pre)) \in 1..2
    /\ DigitsValue(Day(pre)) \in 1..31
    /\ Len(Yr(pre)) = 4
    /\ DigitsValue(Yr(pre)) >= 1
    /\ DigitsValue(Day(pre)) <=
           DaysInMonth(DigitsValue(Yr(pre)), MonthNumber(Mon(pre)))

\* datetime.strptime(f"{group(2)} {group(3)} {group(7)}", '%b %d %Y').date()
LogDate(pre) ==
    [year |-> DigitsValue(Yr(pre)),
     month |-> MonthNumber(Mon(pre)),
     day |-> DigitsValue(Day(pre))]

\* does strptime(line.split(']')[0][1:], '%a %b %d %H:%M:%S %Y') succeed:
\* the first character of the line is dropped unread, whatever it is
TimestampParses(line) ==
    /\ line.pre # <<>>
    /\ Wd(line.pre) \in WeekdayNames
    /\ DateParses(line.pre)
    /\ Len(Hh(line.pre)) \in 1..2
    /\ DigitsValue(Hh(line.pre)) \in 0..23
    /\ Len(Mm(line.pre)) \in 1..2
    /\ DigitsValue(Mm(line.pre)) \in 0..59
    /\ Len(Ss(line.pre)) \in 1..2
    /\ DigitsValue(Ss(line.pre)) \in 0..59

\* the datetime strptime returns
Timestamp(line) ==
    [date |-> LogDate(line.pre),
     hour |-> DigitsValue(Hh(line.pre)),
     minute |-> DigitsValue(Mm(line.pre)),
     second |-> DigitsValue(Ss(line.pre))]

SecondsOfDay(t) == t.hour * 3600 + t.minute * 60 + t.second

\* a fault: the operands of the subtraction exchanged
TotalSecondsSwapped(t, last) ==
    (ToOrdinal(last.date) - ToOrdinal(t.date)) * 86400
    + SecondsOfDay(last) - SecondsOfDay(t)

\* (timestamp - last_timestamp).total_seconds()
TotalSeconds(t, last) ==
    (ToOrdinal(t.date) - ToOrdinal(last.date)) * 86400
    + SecondsOfDay(t) - SecondsOfDay(last)

-----------------------------------------------------------------------------
(* parse_log: one iteration of the for loop, as the values it assigns *)

CastPhrases ==
    {"You begin casting", "Your spell fizzles", "Beginning to memorize"}

\* "You begin casting" in line or "Your spell fizzles" in line or ...
IsCast(line) == line.cast \in CastPhrases

\* a fault: the skill-up test made an elif of the cast test
SkillupMatchElif(line) == line.skill # <<>> /\ line.cast = ""

\* re.search(r"You have become better at (.+?)! \((\d+)\)", line)
SkillupMatch(line) == line.skill # <<>>

SkillName(line) == line.skill[1]

\* int(skillup_match.group(2))
SkillLevel(line) == DigitsValue(line.skill[2])

\* a fault: lines without a matching prefix skipped too
DateFilteredUnmatched(line, sel) ==
    ~ReMatch(line) \/ LogDate(line.pre) # sel

\* a fault: the experience test placed ahead of the date filter
DateFilteredAfterExperience(line, sel) ==
    ReMatch(line) /\ LogDate(line.pre) # sel /\ ~line.exp

\* the date filter: the line is skipped by "continue"
DateFiltered(line, sel) == ReMatch(line) /\ LogDate(line.pre) # sel

\* the strptime of the date filter raises ValueError
DateRaises(line) == ReMatch(line) /\ ~DateParses(line.pre)

\* a fault: the cast branch guarded by the prefix pattern, not by strptime
CastRaisesOnPattern(line) == line.cast # "" /\ ~ReMatch(line)

\* the strptime of the cast branch raises ValueError
CastRaises(line) == IsCast(line) /\ ~TimestampParses(line)

AfkThreshold == 120

\* a fault: a gap of exactly 120 seconds counted as AFK
IsActiveGapStrict(time_diff) == time_diff < 120

\* if time_diff <= 120
IsActiveGap(time_diff) == time_diff <= AfkThreshold

\* a fault: first_cast_time assigned at every cast attempt
NewFirstCastTimeAlways(first, timestamp) == <<timestamp>>

\* if not first_cast_time: first_cast_time = timestamp
NewFirstCastTime(first, timestamp) ==
    IF first = None THEN <<timestamp>> ELSE first

\* a fault: negative gaps clamped to zero
NewActiveTimeClamped(active, last, timestamp) ==
    IF last = None THEN active
    ELSE IF TotalSeconds(timestamp, last[1]) <= 120
         THEN active + (IF TotalSeconds(timestamp, last[1]) < 0 THEN 0
                        ELSE TotalSeconds(timestamp, last[1]))
         ELSE active

\* a fault: a gap of exactly the threshold counted as neither active nor AFK
NewActiveTimeStrict(active, last, timestamp) ==
    IF last = None THEN active
    ELSE IF TotalSeconds(timestamp, last[1]) < 120
         THEN active + TotalSeconds(timestamp, last[1])
         ELSE active

\* total_active_time after a cast attempt at timestamp
NewActiveTime(active, last, timestamp) ==
    IF last = None THEN active
    ELSE IF IsActiveGap(TotalSeconds(timestamp, last[1]))
         THEN active + TotalSeconds(timestamp, last[1])
         ELSE active

\* a fault: last_timestamp taken as midnight when there is no previous cast
NewAfkTimeSinceMidnight(afk, last, timestamp) ==
    IF last = None THEN afk + SecondsOfDay(timestamp)
    ELSE IF TotalSeconds(timestamp, last[1]) <= 120
         THEN afk
         ELSE afk + TotalSeconds(timestamp, last[1])

\* total_afk_time after a cast attempt at timestamp
NewAfkTime(afk, last, timestamp) ==
    IF last = None THEN afk
    ELSE IF IsActiveGap(TotalSeconds(timestamp, last[1]))
         THEN afk
         ELSE afk + TotalSeconds(timestamp, last[1])

\* a fault: end kept at the highest level seen
NewSkillupsMax(sk, skill, skill_level) ==
    IF skill \notin DOMAIN sk
    THEN [n \in DOMAIN sk \cup {skill} |->
            IF n = skill THEN [start |-> skill_level, end |-> skill_level]
            ELSE sk[n]]
    ELSE [sk EXCEPT ![skill].end =
            IF skill_level > sk[skill].end THEN skill_level ELSE sk[skill].end]

\* the skill-up bookkeeping of lines 120-123
NewSkillups(sk, skill, skill_level) ==
    IF skill \notin DOMAIN sk
    THEN [n \in DOMAIN sk \cup {skill} |->
            IF n = skill THEN [start |-> skill_level, end |-> skill_level]
            ELSE sk[n]]
    ELSE [sk EXCEPT ![skill].end = skill_level]

\* the tuple parse_log returns
Report(active, afk, first, last, sk, exp, entries) ==
    [total_active_time |-> active, total_afk_time |-> afk,
     first_cast_time |-> first, last_cast_time |-> last,
     skillups |-> sk, experience_count |-> exp,
     total_log_entries |-> entries]

EmptySkillups == [n \in {} |-> [start |-> 0, end |-> 0]]

\* a fault: the line count of the file reported for a file that is not there
ZeroReportCounted == Report(0, 0, None, None, EmptySkillups, 0, Len(file))

\* return 0, 0, None, None, {}, 0, 0
ZeroReport == Report(0, 0, None, None, EmptySkillups, 0, 0)

\* a fault: only the lines with a timestamp prefix counted
LineCountDated(ls) == Cardinality({k \in 1..Len(ls) : ReMatch(ls[k])})

\* len(lines)
LineCount(ls) == Len(ls)

-----------------------------------------------------------------------------
(* parse_log: the actions *)

\* with open(file_name, 'r') as file: lines = file.readlines()
ReadLines ==
    /\ pc = "open"
    /\ IF file_exists
       THEN /\ lines' = file
            /\ total_log_entries' = LineCount(file)
            /\ idx' = 1
            /\ pc' = "scan"
            /\ result' = result
       ELSE /\ result' = <<ZeroReport>>
            /\ pc' = "returned"
            /\ UNCHANGED <<lines, total_log_entries, idx>>
    /\ UNCHANGED <<file, file_exists, selected_date, total_active_time,
                   total_afk_time, first_cast_time, last_cast_time, skillups,
                   experience_count, last_timestamp>>
    /\ UNCHANGED mainVars

\* one iteration of "for line in lines"
ParseLine ==
    /\ pc = "scan"
    /\ idx <= Len(lines)
    /\ LET line == lines[idx]
           timestamp == Timestamp(line)
       IN  IF DateRaises(line)
           THEN /\ pc' = "raised"
                /\ UNCHANGED <<idx, total_active_time, total_afk_time,
                               first_cast_time, last_cast_time, skillups,
                               experience_count, last_timestamp>>
           ELSE IF DateFiltered(line, selected_date)
           THEN /\ pc' = pc
                /\ idx' = idx + 1
                /\ UNCHANGED <<total_active_time, total_afk_time,
                               first_cast_time, last_cast_time, skillups,
                               experience_count, last_timestamp>>
           ELSE IF line.exp
           THEN /\ pc' = pc
                /\ idx' = idx + 1
                /\ experience_count' = experience_count + 1
                /\ UNCHANGED <<total_active_time, total_afk_time,
                               first_cast_time, last_cast_time, skillups,
                               last_timestamp>>
           ELSE IF CastRaises(line)
           THEN /\ pc' = "raised"
                /\ UNCHANGED <<idx, total_active_time, total_afk_time,
                               first_cast_time, last_cast_time, skillups,
                               experience_count, last_timestamp>>
           ELSE /\ pc' = pc
                /\ idx' = idx + 1
                /\ IF IsCast(line)
                   THEN /\ first_cast_time' =
                               NewFirstCastTime(first_cast_time, timestamp)
                        /\ last_cast_time' = <<timestamp>>
                        /\ total_active_time' =
                               NewActiveTime(total_active_time, last_timestamp,
                                             timestamp)
                        /\ total_afk_time' =
                               NewAfkTime(total_afk_time, last_timestamp,
                                          timestamp)
                        /\ last_timestamp' = <<timestamp>>
                   ELSE UNCHANGED <<first_cast_time, last_cast_time,
                                    total_active_time, total_afk_time,
                                    last_timestamp>>
                /\ IF SkillupMatch(line)
                   THEN skillups' = NewSkillups(skillups, SkillName(line),
                                                SkillLevel(line))
                   ELSE skillups' = skillups
                /\ experience_count' = experience_count
    /\ UNCHANGED <<file, file_exists, lines, selected_date, total_log_entries,
                   result>>
    /\ UNCHANGED mainVars

\* return total_active_time, total_afk_time, first_cast_time, ...
ParseReturn ==
    /\ pc = "scan"
    /\ idx > Len(lines)
    /\ result' = <<Report(total_active_time, total_afk_time, first_cast_time,
                          last_cast_time, skillups, experience_count,
                          total_log_entries)>>
    /\ pc' = "returned"
    /\ UNCHANGED <<file, file_exists, lines, idx, selected_date,
                   total_active_time, total_afk_time, first_cast_time,
                   last_cast_time, skillups, experience_count,
                   total_log_entries, last_timestamp>>
    /\ UNCHANGED mainVars

-----------------------------------------------------------------------------
(* The log lines the model draws files from *)

Y2024 == <<2, 0, 2, 4>>

\* "[Mon Jan DD HH:MM:SS 2024]"
Pre(day, hh, mm, ss) == <<"[", "Mon", "Jan", day, hh, mm, ss, Y2024>>

Line(pre, exp, cast, skill) ==
    [pre |-> pre, exp |-> exp, cast |-> cast, skill |-> skill]

Jan01 == [year |-> 2024, month |-> 1, day |-> 1]
Jan02 == [year |-> 2024, month |-> 1, day |-> 2]

Cast(pre) == Line(pre, FALSE, "You begin casting", <<>>)

\* cast attempts of one day at chosen distances, and one of the next day
GapLines ==
    { Cast(Pre(<<0, 1>>, <<0, 8>>, <<0, 0>>, <<0, 0>>)),
      Cast(Pre(<<0, 1>>, <<0, 8>>, <<0, 1>>, <<0, 0>>)),
      Cast(Pre(<<0, 1>>, <<0, 8>>, <<0, 1>>, <<3, 0>>)),
      Cast(Pre(<<0, 1>>, <<0, 8>>, <<0, 2>>, <<0, 0>>)),
      Cast(Pre(<<0, 1>>, <<0, 8>>, <<0, 2>>, <<0, 1>>)),
      Cast(Pre(<<0, 1>>, <<0, 8>>, <<1, 0>>, <<0, 0>>)),
      Line(Pre(<<0, 1>>, <<0, 8>>, <<0, 3>>, <<0, 0>>), FALSE,
           "Your spell fizzles", <<>>),
      Line(Pre(<<0, 1>>, <<0, 8>>, <<0, 0>>, <<0, 0>>), FALSE,
           "Beginning to memorize", <<>>),
      Cast(Pre(<<0, 2>>, <<0, 0>>, <<0, 0>>, <<3, 0>>)),
      Line(Pre(<<0, 1>>, <<0, 8>>, <<1, 5>>, <<0, 0>>), TRUE, "", <<>>),
      Line(Pre(<<0, 1>>, <<0, 8>>, <<1, 0>>, <<0, 5>>), FALSE, "",
           <<"Fire Magic", <<5, 0>>>>) }

\* lines of every kind the parser tells apart
MixedLines ==
    { \* cast attempts with a well-formed prefix
      Cast(Pre(<<0, 1>>, <<0, 8>>, <<0, 0>>, <<0, 0>>)),
      Cast(Pre(<<0, 1>>, <<0, 8>>, <<0, 1>>, <<0, 0>>)),
      Cast(Pre(<<0, 2>>, <<0, 8>>, <<0, 0>>, <<0, 0>>)),
      \* a one-digit day: "[Mon Jan 2 08:05:00 2024]"
      Cast(Pre(<<2>>, <<0, 8>>, <<0, 5>>, <<0, 0>>)),
      \* no bracket prefix at all
      Cast(<<>>),
      \* a month token that is no month: "[Mon Xyz 01 08:00:00 2024]"
      Line(<<"[", "Mon", "Xyz", <<0, 1>>, <<0, 8>>, <<0, 0>>, <<0, 0>>, Y2024>>,
           FALSE, "", <<>>),
      \* an hour that is no hour: "[Mon Jan 01 25:00:00 2024]"
      Cast(Pre(<<0, 1>>, <<2, 5>>, <<0, 0>>, <<0, 0>>)),
      \* experience lines
      Line(Pre(<<0, 1>>, <<0, 8>>, <<1, 5>>, <<0, 0>>), TRUE, "", <<>>),
      Line(<<>>, TRUE, "", <<>>),
      Line(Pre(<<0, 1>>, <<0, 8>>, <<1, 6>>, <<0, 0>>), TRUE, "",
           <<"Fire Magic", <<5, 2>>>>),
      \* skill-ups
      Line(Pre(<<0, 1>>, <<0, 8>>, <<1, 0>>, <<0, 5>>), FALSE, "",
           <<"Fire Magic", <<5, 0>>>>),
      Line(Pre(<<0, 1>>, <<0, 8>>, <<1, 1>>, <<0, 5>>), FALSE, "",
           <<"Fire Magic", <<4, 9>>>>),
      Line(Pre(<<0, 1>>, <<0, 8>>, <<0, 1>>, <<3, 0>>), FALSE,
           "You begin casting", <<"Ice Magic", <<1, 0>>>>),
      \* a line of the next day that matches everything
      Line(Pre(<<0, 2>>, <<0, 9>>, <<0, 0>>, <<0, 0>>), TRUE,
           "Your spell fizzles", <<"Ice Magic", <<1, 1>>>>) }

RECURSIVE Files(_, _)
\* the files of at most n lines drawn from U
Files(U, n) ==
    IF n = 0 THEN {<<>>}
    ELSE LET shorter == Files(U, n - 1)
         IN  shorter \cup
             {Append(f, l) : f \in {g \in shorter : Len(g) = n - 1}, l \in U}

SelectableDates == {Jan01, Jan02}

-----------------------------------------------------------------------------
(* parse_log called on a file and a selected date *)

\* the locals of parse_log as lines 51-56 set them
ParseLocalsInit ==
    /\ lines = <<>>
    /\ idx = 0
    /\ total_active_time = 0
    /\ total_afk_time = 0
    /\ first_cast_time = None
    /\ last_cast_time = None
    /\ skillups = EmptySkillups
    /\ experience_count = 0
    /\ total_log_entries = 0
    /\ last_timestamp = None
    /\ result = None

NoMain ==
    /\ logs = <<>>
    /\ log_input = <<>>
    /\ date_input = <<>>
    /\ selected_log = None
    /\ available_dates = <<>>
    /\ displayed = None

InitParse(U) ==
    /\ pc = "open"
    /\ file \in Files(U, MaxLines)
    /\ file_exists \in BOOLEAN
    /\ selected_date \in SelectableDates
    /\ ParseLocalsInit
    /\ NoMain

Init == InitParse(MixedLines)

InitGaps == InitParse(GapLines)

Next == ReadLines \/ ParseLine \/ ParseReturn

Spec == Init /\ [][Next]_vars

SpecGaps == InitGaps /\ [][Next]_vars

-----------------------------------------------------------------------------
(* extract_dates_from_log *)

\* a date strptime of line 38 raises ValueError on some line
ExtractRaises(f) == \E k \in 1..Len(f) : DateRaises(f[k])

\* dates, after the for loop
DistinctDates(f) == {LogDate(f[k].pre) : k \in {j \in 1..Len(f) : ReMatch(f[j])}}

RECURSIVE SortedDescending(_)
\* sorted(dates, reverse=True)
SortedDescending(S) ==
    IF S = {} THEN <<>>
    ELSE LET m == CHOOSE d \in S : \A e \in S : ToOrdinal(e) <= ToOrdinal(d)
         IN  <<m>> \o SortedDescending(S \ {m})

\* the list extract_dates_from_log returns when nothing is raised
ExtractDatesFromLog(f, exists) ==
    IF exists THEN SortedDescending(DistinctDates(f)) ELSE <<>>

-----------------------------------------------------------------------------
(* main: the two prompts *)

DigitChars == <<"0", "1", "2", "3", "4", "5", "6", "7", "8", "9">>

IsDigitChar(c) == \E k \in 1..Len(DigitChars) : DigitChars[k] = c

CharDigit(c) == (CHOOSE k \in 1..Len(DigitChars) : DigitChars[k] = c) - 1

Unsigned(s) == IF s # <<>> /\ s[1] = "-" THEN Tail(s) ELSE s

\* int(s) does not raise ValueError
IntParses(s) ==
    /\ Unsigned(s) # <<>>
    /\ \A k \in 1..Len(Unsigned(s)) : IsDigitChar(Unsigned(s)[k])

\* int(s)
IntValue(s) ==
    LET v == DigitsValue([k \in 1..Len(Unsigned(s)) |-> CharDigit(Unsigned(s)[k])])
    IN  IF s[1] = "-" THEN 0 - v ELSE v

\* seq[i] does not raise IndexError (i counts from 0, negative from the end)
IndexInRange(seq, i) == (0 - Len(seq)) <= i /\ i < Len(seq)

\* seq[i]
PyIndex(seq, i) == IF i >= 0 THEN seq[i + 1] ELSE seq[Len(seq) + i + 1]

\* int(log_index_input) - 1 if log_index_input else 0
ChosenIndex(inp) == IF inp # <<>> THEN IntValue(inp) - 1 ELSE 0

\* the selection raises ValueError or IndexError
SelectionRaises(seq, inp) ==
    inp # <<>> /\ (~IntParses(inp) \/ ~IndexInRange(seq, ChosenIndex(inp)))

\* the texts typed at a prompt
Inputs == { <<>>, <<"1">>, <<"2">>, <<"3">>, <<"0">>, <<"-", "1">>, <<"x">> }

\* logs = detect_eq_logs(); the log prompt of lines 175-190
SelectLog ==
    /\ pc = "main"
    /\ IF logs = <<>>
       THEN /\ pc' = "done"
            /\ UNCHANGED <<log_input, selected_log>>
       ELSE \E inp \in Inputs :
              /\ log_input' = inp
              /\ IF SelectionRaises(logs, inp)
                 THEN /\ pc' = "invalid"
                      /\ selected_log' = selected_log
                 ELSE /\ pc' = "dates"
                      /\ selected_log' = <<PyIndex(logs, ChosenIndex(inp))>>
    /\ UNCHANGED <<file, file_exists, selected_date, logs, date_input,
                   available_dates, displayed>>
    /\ UNCHANGED parseVars

\* available_dates = extract_dates_from_log(selected_log), lines 193-197
ExtractDates ==
    /\ pc = "dates"
    /\ IF file_exists /\ ExtractRaises(file)
       THEN /\ pc' = "raised"
            /\ available_dates' = available_dates
       ELSE /\ available_dates' = ExtractDatesFromLog(file, file_exists)
            /\ pc' = IF ExtractDatesFromLog(file, file_exists) = <<>>
                     THEN "done" ELSE "select_date"
    /\ UNCHANGED <<file, file_exists, selected_date, logs, log_input,
                   date_input, selected_log, displayed>>
    /\ UNCHANGED parseVars

\* the date prompt of lines 203-204, then the call of parse_log
SelectDate ==
    /\ pc = "select_date"
    /\ \E inp \in Inputs :
         /\ date_input' = inp
         /\ IF SelectionRaises(available_dates, inp)
            THEN /\ pc' = "raised"
                 /\ selected_date' = selected_date
            ELSE /\ pc' = "open"
                 /\ selected_date' = PyIndex(available_dates, ChosenIndex(inp))
    /\ UNCHANGED <<file, file_exists, logs, log_input, selected_log,
                   available_dates, displayed>>
    /\ UNCHANGED parseVars

\* the log file is removed after its dates were read and before parse_log
\* opens it
RemoveFile ==
    /\ pc = "open"
    /\ file_exists
    /\ file_exists' = FALSE
    /\ UNCHANGED <<pc, file, selected_date>>
    /\ UNCHANGED mainVars
    /\ UNCHANGED parseVars

\* display_report(total_active_time, ...), line 217
DisplayReport ==
    /\ pc = "returned"
    /\ displayed' = result
    /\ pc' = "done"
    /\ UNCHANGED <<file, file_exists, selected_date, logs, log_input,
                   date_input, selected_log, available_dates>>
    /\ UNCHANGED parseVars

\* the lines the files of a run of main are drawn from
MainLines ==
    { Cast(Pre(<<0, 1>>, <<0, 8>>, <<0, 0>>, <<0, 0>>)),
      Cast(Pre(<<0, 2>>, <<0, 8>>, <<0, 0>>, <<0, 0>>)),
      Line(Pre(<<0, 3>>, <<0, 7>>, <<0, 0>>, <<0, 0>>), FALSE, "", <<>>),
      Cast(Pre(<<2>>, <<0, 8>>, <<0, 5>>, <<0, 0>>)),
      Cast(<<>>),
      Cast(Pre(<<0, 1>>, <<2, 5>>, <<0, 0>>, <<0, 0>>)),
      Line(<<"[", "Mon", "Xyz", <<0, 1>>, <<0, 8>>, <<0, 0>>, <<0, 0>>, Y2024>>,
           FALSE, "", <<>>),
      Line(Pre(<<0, 1>>, <<0, 8>>, <<1, 5>>, <<0, 0>>), TRUE, "", <<>>) }

\* the lists detect_eq_logs can return: file names, most recent first
LogLists == {[k \in 1..n |-> k] : n \in 0..MaxLogs}

InitMain ==
    /\ pc = "main"
    /\ file \in Files(MainLines, MaxMainLines)
    /\ file_exists \in BOOLEAN
    /\ selected_date = None
    /\ logs \in LogLists
    /\ log_input = <<>>
    /\ date_input = <<>>
    /\ selected_log = None
    /\ available_dates = <<>>
    /\ displayed = None
    /\ ParseLocalsInit

NextMain ==
    \/ SelectLog
    \/ ExtractDates
    \/ SelectDate
    \/ RemoveFile
    \/ ReadLines
    \/ ParseLine
    \/ ParseReturn
    \/ DisplayReport

SpecMain == InitMain /\ [][NextMain]_vars

-----------------------------------------------------------------------------
(* What the properties below speak of *)

\* the line is not removed by the date filter
NotRemoved(line) == ~(ReMatch(line) /\ LogDate(line.pre) # selected_date)

\* the line is processed as a cast attempt
ProcessedCast(line) == NotRemoved(line) /\ ~line.exp /\ IsCast(line)

RECURSIVE CastTimes(_, _)
\* the timestamps of the cast attempts processed in the first n lines of ls
CastTimes(ls, n) ==
    IF n = 0 THEN <<>>
    ELSE IF ProcessedCast(ls[n])
         THEN Append(CastTimes(ls, n - 1), Timestamp(ls[n]))
         ELSE CastTimes(ls, n - 1)

\* the number of lines the loop has gone through
Scanned == IF idx = 0 THEN 0 ELSE idx - 1

\* the step processes a cast attempt that has a predecessor
GapStep ==
    /\ pc = "scan"
    /\ idx' = idx + 1
    /\ ProcessedCast(lines[idx])
    /\ CastTimes(lines, idx - 1) # <<>>

\* the gap of such a step, T - P in seconds
StepGap ==
    LET before == CastTimes(lines, idx - 1)
    IN  TotalSeconds(Timestamp(lines[idx]), before[Len(before)])

RECURSIVE SumGaps(_)
\* the sum of the gaps between consecutive timestamps of ts
SumGaps(ts) ==
    IF Len(ts) < 2 THEN 0
    ELSE SumGaps(SubSeq(ts, 1, Len(ts) - 1))
         + TotalSeconds(ts[Len(ts)], ts[Len(ts) - 1])

RECURSIVE SumPositiveGaps(_)
\* the same sum over the gaps greater than zero only
SumPositiveGaps(ts) ==
    IF Len(ts) < 2 THEN 0
    ELSE SumPositiveGaps(SubSeq(ts, 1, Len(ts) - 1))
         + (IF TotalSeconds(ts[Len(ts)], ts[Len(ts) - 1]) > 0
            THEN TotalSeconds(ts[Len(ts)], ts[Len(ts) - 1]) ELSE 0)

\* a time of day of 2024-01-01
At(h, m, s) == [date |-> Jan01, hour |-> h, minute |-> m, second |-> s]

\* t is earlier than p
Earlier(t, p) ==
    \/ ToOrdinal(t.date) < ToOrdinal(p.date)
    \/ ToOrdinal(t.date) = ToOrdinal(p.date) /\ SecondsOfDay(t) < SecondsOfDay(p)

-----------------------------------------------------------------------------
(* C1: every cast attempt after the first adds its gap to exactly one      *)
(* accumulator, total_active_time when gap <= 120 (zero and negative gaps  *)
(* included, unclamped) and total_afk_time when gap > 120, and leaves the  *)
(* other unchanged; casts 60 s apart give 60/0, casts 121 s apart give     *)
(* 0/121, casts at 08:00:00, 08:01:30, 08:10:00 give 90/510.               *)

C1_GapStep ==
    GapStep =>
        IF StepGap <= 120
        THEN /\ total_active_time' = total_active_time + StepGap
             /\ total_afk_time' = total_afk_time
        ELSE /\ total_afk_time' = total_afk_time + StepGap
             /\ total_active_time' = total_active_time

C1_Examples ==
    (pc = "returned" /\ file_exists) =>
        LET ts == CastTimes(lines, Len(lines))
        IN  /\ ts = <<At(8, 0, 0), At(8, 1, 0)>> =>
                 result[1].total_active_time = 60 /\ result[1].total_afk_time = 0
            /\ ts = <<At(8, 0, 0), At(8, 2, 1)>> =>
                 result[1].total_active_time = 0 /\ result[1].total_afk_time = 121
            /\ ts = <<At(8, 0, 0), At(8, 1, 30), At(8, 10, 0)>> =>
                 result[1].total_active_time = 90 /\ result[1].total_afk_time = 510

\* C1: each gap after the first cast attempt goes to exactly one accumulator,
\* by the 120 s threshold, and the three examples give the stated totals
C1_GapToOneAccumulator == [][C1_GapStep]_vars /\ []C1_Examples

\* the three casts of the scenario have been scanned and returned
C1_Witness ==
    /\ pc = "returned"
    /\ file_exists
    /\ CastTimes(lines, Len(lines)) = <<At(8, 0, 0), At(8, 1, 30), At(8, 10, 0)>>
    /\ result[1].total_active_time = 90
    /\ result[1].total_afk_time = 510

-----------------------------------------------------------------------------
(* C2, as stated: over every input, also with cast attempts out of time    *)
(* order, no step lowers total_active_time or total_afk_time.              *)

C2_NeverLowered ==
    [][/\ total_active_time' >= total_active_time
       /\ total_afk_time' >= total_afk_time]_vars

(* C2, amended: no step lowers total_afk_time; a step lowers               *)
(* total_active_time exactly when it processes a cast attempt whose        *)
(* timestamp is earlier than that of the previously processed cast         *)
(* attempt, and then by the negative gap.                                  *)

C2_BackwardStep ==
    /\ GapStep
    /\ LET before == CastTimes(lines, idx - 1)
       IN  Earlier(Timestamp(lines[idx]), before[Len(before)])

C2_Step ==
    /\ total_afk_time' >= total_afk_time
    /\ IF C2_BackwardStep
       THEN /\ total_active_time' = total_active_time + StepGap
            /\ total_active_time' < total_active_time
       ELSE total_active_time' >= total_active_time

\* C2, amended: total_afk_time is never lowered, total_active_time only by
\* the negative gap of a cast attempt earlier than the previous one
C2_LoweredOnlyByNegativeGap == [][C2_Step]_vars

\* a negative gap has lowered total_active_time and a long gap raised
\* total_afk_time
C2_Witness ==
    /\ pc = "scan"
    /\ total_active_time < 0
    /\ total_afk_time > 0

-----------------------------------------------------------------------------
(* C3, as stated: after parse_log completes, total_active_time +           *)
(* total_afk_time is the sum of the gaps between consecutive processed     *)
(* cast attempts that are greater than zero.                               *)

C3_SumOfPositiveGaps ==
    (pc = "returned" /\ file_exists) =>
        result[1].total_active_time + result[1].total_afk_time
            = SumPositiveGaps(CastTimes(lines, Len(lines)))

(* C3, amended: the sum is over all the gaps, the negative ones included.  *)

C3_SumOfAllGaps ==
    (pc = "returned" /\ file_exists) =>
        result[1].total_active_time + result[1].total_afk_time
            = SumGaps(CastTimes(lines, Len(lines)))

\* a run has returned whose gaps are not all positive
C3_Witness ==
    /\ pc = "returned"
    /\ file_exists
    /\ Len(CastTimes(lines, Len(lines))) = 3
    /\ SumGaps(CastTimes(lines, Len(lines)))
           # SumPositiveGaps(CastTimes(lines, Len(lines)))
    /\ result[1].total_afk_time > 0

-----------------------------------------------------------------------------
(* C4, as stated: with a selected date D, every cast-attempt timestamp     *)
(* that sets first_cast_time or last_cast_time or enters a gap computation *)
(* has calendar date D.                                                    *)

C4_OnlySelectedDate ==
    /\ first_cast_time # None => first_cast_time[1].date = selected_date
    /\ last_cast_time # None => last_cast_time[1].date = selected_date
    /\ last_timestamp # None => last_timestamp[1].date = selected_date

-----------------------------------------------------------------------------
(* C5 *)

\* the line contains the skill-up pattern
HasSkillup(line) == line.skill # <<>>

\* the loop goes through line idx to the end of the iteration or to a continue
Iteration == pc = "scan" /\ idx' = idx + 1

\* the skill-up of line idx is in the skill map after the step
Registered ==
    /\ lines[idx].skill[1] \in DOMAIN skillups'
    /\ skillups'[lines[idx].skill[1]].end = DigitsValue(lines[idx].skill[2])

(* C5, as stated: for every line not removed by the date filter that       *)
(* contains the skill-up pattern, the skill map is updated, whether or not *)
(* the line was also classified as ExperienceGain or as CastAttempt.       *)

C5_SkillupIndependent ==
    [][(Iteration /\ NotRemoved(lines[idx]) /\ HasSkillup(lines[idx]))
           => Registered]_vars

(* C5, amended: the skill map is updated for every such line that is not   *)
(* an experience line, whether or not it is also a cast attempt; an        *)
(* experience line is counted and nothing else of it is looked at, so its  *)
(* skill-up is not registered.                                             *)

C5_Step ==
    (Iteration /\ NotRemoved(lines[idx])) =>
        IF lines[idx].exp
        THEN /\ skillups' = skillups
             /\ experience_count' = experience_count + 1
        ELSE HasSkillup(lines[idx]) => Registered

\* C5, amended: skill-up detection runs on cast lines and on plain lines,
\* not on experience lines
C5_SkillupAfterCastOnly == [][C5_Step]_vars

\* a line with a cast phrase and a skill-up has registered both
C5_Witness ==
    /\ pc = "scan"
    /\ idx > 1
    /\ IsCast(lines[idx - 1])
    /\ HasSkillup(lines[idx - 1])
    /\ last_cast_time = <<Timestamp(lines[idx - 1])>>
    /\ lines[idx - 1].skill[1] \in DOMAIN skillups

-----------------------------------------------------------------------------
(* C6: for every recorded skill, start is the level of the first skill-up  *)
(* registered for it and never changes, end is the level of the most       *)
(* recent one, also when that level is lower; one skill-up gives           *)
(* end - start = 0.                                                        *)

RECURSIVE SkillEvents(_, _)
\* the skill-ups, <<name, level>>, registered in the first n lines of ls
SkillEvents(ls, n) ==
    IF n = 0 THEN <<>>
    ELSE IF NotRemoved(ls[n]) /\ ~ls[n].exp /\ HasSkillup(ls[n])
         THEN Append(SkillEvents(ls, n - 1),
                     <<ls[n].skill[1], DigitsValue(ls[n].skill[2])>>)
         ELSE SkillEvents(ls, n - 1)

EventsOf(evs, name) == {k \in 1..Len(evs) : evs[k][1] = name}

FirstOf(K) == CHOOSE k \in K : \A j \in K : k <= j

LastOf(K) == CHOOSE k \in K : \A j \in K : j <= k

C6_StartAndEnd ==
    pc \in {"scan", "returned", "raised"} =>
        LET evs == SkillEvents(lines, Scanned)
        IN  /\ DOMAIN skillups = {evs[k][1] : k \in 1..Len(evs)}
            /\ \A name \in DOMAIN skillups :
                 /\ skillups[name].start = evs[FirstOf(EventsOf(evs, name))][2]
                 /\ skillups[name].end = evs[LastOf(EventsOf(evs, name))][2]
                 /\ Cardinality(EventsOf(evs, name)) = 1
                        => skillups[name].end - skillups[name].start = 0

C6_StartKept ==
    \A name \in DOMAIN skillups :
        /\ name \in DOMAIN skillups'
        /\ skillups'[name].start = skillups[name].start

\* C6: start is the first registered level and is kept, end the latest
C6_SkillRecord == []C6_StartAndEnd /\ [][C6_StartKept]_vars

\* a skill went from 50 to 49
C6_Witness ==
    /\ pc = "returned"
    /\ "Fire Magic" \in DOMAIN result[1].skillups
    /\ result[1].skillups["Fire Magic"] = [start |-> 50, end |-> 49]

-----------------------------------------------------------------------------
(* C7 *)

\* the prefix conforms to the grammar [Www Mmm DD HH:MM:SS YYYY]
Conforms(line) == ReMatch(line)

(* C7, as stated: a line with a cast phrase whose prefix does not conform  *)
(* to the grammar is fatal for the run: no Report is returned and nothing  *)
(* is passed to display_report.                                            *)

C7_MalformedIsFatal ==
    (result # None \/ displayed # None) =>
        \A k \in 1..Len(lines) : ~(IsCast(lines[k]) /\ ~Conforms(lines[k]))

\* the line gets to the cast test and strptime rejects its prefix
RejectedCast(line) ==
    /\ ReMatch(line) => DateParses(line.pre) /\ LogDate(line.pre) = selected_date
    /\ ~line.exp
    /\ IsCast(line)
    /\ ~TimestampParses(line)

(* C7, amended: the run is fatal whenever a line that gets to the cast     *)
(* test has a cast phrase and a prefix that strptime rejects; a prefix     *)
(* that departs from the grammar and that strptime accepts is processed.   *)

C7_RejectedIsFatal ==
    /\ \A k \in 1..Len(lines) : k <= Scanned => ~RejectedCast(lines[k])
    /\ (result # None \/ displayed # None) =>
           \A k \in 1..Len(lines) : ~RejectedCast(lines[k])
    /\ pc = "raised" => result = None /\ displayed = None

\* the run ended on a rejected cast line after a cast attempt was recorded
C7_Witness ==
    /\ pc = "raised"
    /\ idx \in 2..Len(lines)
    /\ RejectedCast(lines[idx])
    /\ first_cast_time # None
    /\ displayed = None

-----------------------------------------------------------------------------
(* C8, as stated: the bracket-prefix match followed by the date parsing    *)
(* never raises, also for a prefix of the right shape that names no real   *)
(* month or day.                                                           *)

C8_ExtractionNeverRaises ==
    (pc = "raised" /\ idx \in 1..Len(lines)) =>
        ~(ReMatch(lines[idx]) /\ ~DateParses(lines[idx].pre))

-----------------------------------------------------------------------------
(* C9, as stated: a log or a date is selected only by Enter or by a number *)
(* in 1..N; any other text is reported as invalid and nothing is parsed.   *)

ValidChoice(inp, seq) ==
    inp = <<>> \/ (IntParses(inp) /\ IntValue(inp) \in 1..Len(seq))

C9_SelectionValidated ==
    /\ ~ValidChoice(log_input, logs) =>
           pc = "invalid" /\ selected_log = None
    /\ ~ValidChoice(date_input, available_dates) =>
           pc = "invalid" /\ lines = <<>> /\ result = None

-----------------------------------------------------------------------------
(* C10: after parse_log completes, experience_count is the number of lines *)
(* that contain "You gain party experience" and are not removed by the     *)
(* date filter, lines without a matching prefix included.                  *)

ExperienceLines(n) == {k \in 1..n : lines[k].exp /\ NotRemoved(lines[k])}

C10_ExperienceCount ==
    /\ pc \in {"scan", "raised"} =>
           experience_count = Cardinality(ExperienceLines(Scanned))
    /\ (pc = "returned" /\ file_exists) =>
           result[1].experience_count = Cardinality(ExperienceLines(Len(lines)))

\* two experience lines counted, one of them without a prefix, and an
\* experience line of another date not counted
C10_Witness ==
    /\ pc = "returned"
    /\ file_exists
    /\ result[1].experience_count = 2
    /\ \E k \in 1..Len(lines) : lines[k].exp /\ lines[k].pre = <<>>
    /\ \E k \in 1..Len(lines) : lines[k].exp /\ ~NotRemoved(lines[k])

-----------------------------------------------------------------------------
(* C11: for every existing file and every selected date, the               *)
(* total_log_entries parse_log returns is the number of lines of the file, *)
(* whatever the date filter skips and however the lines are classified.    *)

\* the lines of the file, counted one by one
RECURSIVE CountLines(_)
CountLines(ls) == IF ls = <<>> THEN 0 ELSE 1 + CountLines(Tail(ls))

C11_TotalLogEntries ==
    /\ (pc \in {"scan", "raised"} /\ idx >= 1) =>
           total_log_entries = CountLines(file)
    /\ (pc = "returned" /\ file_exists) =>
           result[1].total_log_entries = CountLines(file)

\* three lines returned as three entries though one was skipped by the date
\* filter, one had no prefix and one was an experience line
C11_Witness ==
    /\ pc = "returned"
    /\ file_exists
    /\ result[1].total_log_entries = 3
    /\ \E k \in 1..Len(file) : ~NotRemoved(file[k])
    /\ \E k \in 1..Len(file) : file[k].pre = <<>>
    /\ result[1].experience_count >= 1

-----------------------------------------------------------------------------
(* C12: the first processed cast attempt adds nothing: when exactly one    *)
(* cast attempt is processed, active is 0, afk is 0 and first_cast_time is *)
(* last_cast_time.                                                         *)

C12_LoneCast ==
    /\ (pc \in {"scan", "raised"} /\ idx >= 1
            /\ Len(CastTimes(lines, Scanned)) = 1) =>
           /\ total_active_time = 0
           /\ total_afk_time = 0
           /\ first_cast_time # None
           /\ first_cast_time = last_cast_time
    /\ (pc = "returned" /\ file_exists
            /\ Len(CastTimes(lines, Len(lines))) = 1) =>
           /\ result[1].total_active_time = 0
           /\ result[1].total_afk_time = 0
           /\ result[1].first_cast_time # None
           /\ result[1].first_cast_time = result[1].last_cast_time

\* a file of three lines with one cast attempt processed has been returned
C12_Witness ==
    /\ pc = "returned"
    /\ file_exists
    /\ Len(lines) = 3
    /\ Len(CastTimes(lines, Len(lines))) = 1
    /\ result[1].first_cast_time = <<At(8, 1, 0)>>
    /\ result[1].total_afk_time = 0

-----------------------------------------------------------------------------
(* C13, as stated: for every file, extract_dates_from_log returns the      *)
(* calendar dates of the lines whose prefix matches the pattern, each      *)
(* once, most recent first; the date chosen by Enter is the most recent    *)
(* date of the file.                                                       *)

\* the lines of the file whose prefix matches the pattern
Dated == {k \in 1..Len(file) : ReMatch(file[k])}

\* what holds of the list whenever extract_dates_from_log does return
DatesWhenReturned ==
    /\ available_dates # <<>> =>
           /\ {available_dates[i] : i \in 1..Len(available_dates)}
                  = {LogDate(file[k].pre) : k \in Dated}
           /\ \A i, j \in 1..Len(available_dates) :
                  i < j => ToOrdinal(available_dates[i])
                               > ToOrdinal(available_dates[j])
    /\ (pc = "done" /\ selected_log # None /\ file_exists
            /\ available_dates = <<>>) => Dated = {}
    /\ (pc \in {"open", "scan", "returned"} /\ date_input = <<>>) =>
           /\ selected_date = available_dates[1]
           /\ \A k \in Dated :
                  ToOrdinal(LogDate(file[k].pre)) <= ToOrdinal(selected_date)

\* the call of extract_dates_from_log ended in an exception
ExtractionRaised == pc = "raised" /\ idx = 0 /\ selected_log # None

\* C13: every file yields its list of dates, distinct and most recent first
C13_DatesOfEveryFile == DatesWhenReturned /\ ~ExtractionRaised

-----------------------------------------------------------------------------
(* C14: when the log file does not exist, parse_log returns the zero       *)
(* Report and extract_dates_from_log the empty sequence; neither lets the  *)
(* error through.                                                          *)

IsZeroReport(r) ==
    /\ r.total_active_time = 0
    /\ r.total_afk_time = 0
    /\ r.first_cast_time = <<>>
    /\ r.last_cast_time = <<>>
    /\ DOMAIN r.skillups = {}
    /\ r.experience_count = 0
    /\ r.total_log_entries = 0

C14_FileNotFound ==
    ~file_exists =>
        /\ pc \notin {"scan", "raised"}
        /\ lines = <<>>
        /\ pc = "returned" => result # None
        /\ result # None => Len(result) = 1 /\ IsZeroReport(result[1])
        /\ displayed # None => IsZeroReport(displayed[1])
        /\ (selected_log # None /\ result = None
                /\ pc \notin {"dates", "open"}) =>
               pc = "done" /\ available_dates = <<>>

\* the file went away before parse_log opened it and the zero Report came back
C14_Witness ==
    /\ pc = "returned"
    /\ ~file_exists
    /\ file # <<>>
    /\ available_dates # <<>>
    /\ IsZeroReport(result[1])

-----------------------------------------------------------------------------
(* C15: first_cast_time is unset exactly while no cast attempt has been    *)
(* processed; once set it is the timestamp of the first processed cast     *)
(* attempt and never changes. last_cast_time is the timestamp of the most  *)
(* recently processed cast attempt, not the greatest one, and it equals    *)
(* last_timestamp.                                                         *)

C15_FirstAndLast ==
    /\ (pc = "scan") =>
           LET ts == CastTimes(lines, Scanned)
           IN  /\ (first_cast_time = None) <=> (ts = <<>>)
               /\ (last_cast_time = None) <=> (ts = <<>>)
               /\ ts # <<>> => /\ first_cast_time = <<ts[1]>>
                               /\ last_cast_time = <<ts[Len(ts)]>>
               /\ last_cast_time = last_timestamp
    /\ (pc = "returned" /\ file_exists) =>
           LET ts == CastTimes(lines, Len(lines))
           IN  /\ (result[1].first_cast_time = None) <=> (ts = <<>>)
               /\ ts # <<>> => /\ result[1].first_cast_time = <<ts[1]>>
                               /\ result[1].last_cast_time = <<ts[Len(ts)]>>

C15_FirstKept ==
    (pc = "scan" /\ first_cast_time # None) =>
        first_cast_time' = first_cast_time

\* C15: first and last cast time follow the order of processing
C15_FirstSetOnceLastFollows == []C15_FirstAndLast /\ [][C15_FirstKept]_vars

\* three cast attempts, the latest of them in the middle
C15_Witness ==
    /\ pc = "returned"
    /\ file_exists
    /\ CastTimes(lines, Len(lines)) = <<At(8, 1, 0), At(8, 2, 0), At(8, 0, 0)>>
    /\ result[1].first_cast_time = <<At(8, 1, 0)>>
    /\ result[1].last_cast_time = <<At(8, 0, 0)>>

-----------------------------------------------------------------------------
(* C16: a line whose prefix matches the pattern and parses to a date other *)
(* than the selected one changes nothing of the parser state: not the time *)
(* totals, the first and last cast time, last_timestamp, the skill map or  *)
(* experience_count, whatever else the line contains.                      *)

\* the line about to be read carries a date other than the selected one
OtherDay ==
    /\ pc = "scan"
    /\ idx <= Len(lines)
    /\ ReMatch(lines[idx])
    /\ DateParses(lines[idx].pre)
    /\ LogDate(lines[idx].pre) # selected_date

C16_Step ==
    OtherDay =>
        /\ pc' = "scan"
        /\ idx' = idx + 1
        /\ UNCHANGED <<total_active_time, total_afk_time, first_cast_time,
                       last_cast_time, last_timestamp, skillups,
                       experience_count>>

\* C16: a line of another date leaves the whole parser state as it was
C16_OtherDayLineIsInert == [][C16_Step]_vars

\* a line of the next day with experience, a cast attempt and a skill-up
\* has been read and nothing was recorded
C16_Witness ==
    /\ pc = "scan"
    /\ idx = 2
    /\ selected_date = Jan01
    /\ lines[1] = Line(Pre(<<0, 2>>, <<0, 9>>, <<0, 0>>, <<0, 0>>), TRUE,
                       "Your spell fizzles", <<"Ice Magic", <<1, 1>>>>)
    /\ experience_count = 0
    /\ first_cast_time = None
    /\ last_timestamp = None
    /\ skillups = EmptySkillups

-----------------------------------------------------------------------------
(* C17: after any prefix of the input in which at least one cast attempt   *)
(* was processed, total_active_time + total_afk_time is last_cast_time     *)
(* minus first_cast_time in seconds, in whatever order the cast attempts   *)
(* come.                                                                   *)

\* C17: the two totals telescope to last_cast_time - first_cast_time
C17_Telescoping ==
    /\ (pc = "scan" /\ first_cast_time # None) =>
           total_active_time + total_afk_time
               = TotalSeconds(last_cast_time[1], first_cast_time[1])
    /\ (pc = "returned" /\ file_exists /\ result[1].first_cast_time # None) =>
           result[1].total_active_time + result[1].total_afk_time
               = TotalSeconds(result[1].last_cast_time[1],
                              result[1].first_cast_time[1])

\* a step back of ten minutes and then a step forward of 121 seconds
C17_Witness ==
    /\ pc = "returned"
    /\ file_exists
    /\ CastTimes(lines, Len(lines)) = <<At(8, 10, 0), At(8, 0, 0), At(8, 2, 1)>>
    /\ result[1].total_active_time = 0 - 600
    /\ result[1].total_afk_time = 121

=============================================================================
